---- MODULE Spec2Model ----
(***************************************************************************)
(* A model of main.py: a FastAPI application with one POST route at "/"    *)
(* and a StaticFiles mount at "/" serving the directory "frontend" in      *)
(* html mode.  The application state is the route table built while the    *)
(* module is loaded, the static directory on disk, and the mount's         *)
(* config_checked flag.  A request is dispatched through the route table   *)
(* in registration order and answered by the endpoint it reaches.          *)
(***************************************************************************)
EXTENDS Naturals, Sequences, FiniteSets

VARIABLES app, routes, frontend, configChecked, last, nServed, conn

vars == <<app, routes, frontend, configChecked, last, nServed, conn>>

(***************************************************************************)
(* Bounds of the model.                                                    *)
(***************************************************************************)
MaxRequests == 2
MaxInFlight == 2

(***************************************************************************)
(* Requests.  A path is its sequence of segments: <<>> is "/".             *)
(***************************************************************************)
Root == <<>>
Methods == {"GET", "HEAD", "POST", "PUT"}
Paths == {Root, <<"app.js">>, <<"docs">>}
Queries == {"", "x=1"}
Bodies == {"", "junk"}
NoTag == "none"
Tags == {NoTag, "v1", "v0"}

\* A request carries at most one of a query, a body and an If-None-Match
\* header, or all three.
Requests ==
    {r \in [method : Methods, path : Paths, query : Queries,
            body : Bodies, ifNoneMatch : Tags] :
        \/ r.query = "" /\ r.body = ""
        \/ r.query = "" /\ r.ifNoneMatch = NoTag
        \/ r.body = "" /\ r.ifNoneMatch = NoTag
        \/ r.query # "" /\ r.body # "" /\ r.ifNoneMatch = "v1"}

Plain(req) == [req EXCEPT !.query = "", !.body = "", !.ifNoneMatch = NoTag]

IsPostRoot(req) == req.method = "POST" /\ req.path = Root

(***************************************************************************)
(* The static directory: whether "frontend" exists, and for each file name *)
(* the version stored under it (Absent when there is no such file).        *)
(***************************************************************************)
Absent == "absent"
Files == {"index.html", "app.js", "404.html", "docs"}
Contents == {"v1"}

NoFiles == [f \in Files |-> Absent]
Directories == [exists : {TRUE}, files : [Files -> Contents \cup {Absent}]]
                 \cup {[exists |-> FALSE, files |-> NoFiles]}

Etag(content) == content

(***************************************************************************)
(* Responses.                                                              *)
(***************************************************************************)
JsonBody(obj) == [type |-> "json", json |-> obj, file |-> <<>>]
FileBody(name, content) == [type |-> "file", json |-> {}, file |-> <<name, content>>]
HtmlBody(name) == [type |-> "html", json |-> {}, file |-> <<name>>]
TextBody(text) == [type |-> "text", json |-> {}, file |-> <<text>>]
EmptyBody == [type |-> "empty", json |-> {}, file |-> <<>>]

Response(status, body, by) == [status |-> status, body |-> body, by |-> by]

HttpError(status, detail, by) ==
    Response(status, JsonBody({<<"detail", detail>>}), by)

(***************************************************************************)
(* The endpoint of router.post("/"): it takes no parameters, so nothing of *)
(* the request is validated, and it returns the constant dict, which the   *)
(* framework sends as a JSON body with status 200.                         *)
(***************************************************************************)
helloWrongValue == {<<"hello", "world">>}

hello == {<<"hello", "hello">>}

HelloValidatesBody(req) ==
    IF req.body = "junk"
    THEN HttpError(422, "Unprocessable Entity", "hello")
    ELSE Response(200, JsonBody(hello), "hello")

HelloEndpoint(req) == Response(200, JsonBody(hello), "hello")

(***************************************************************************)
(* StaticFiles(directory="frontend", html=True).                           *)
(*   StaticFilesInit : the constructor's check_dir test.                   *)
(*   LookupPath      : lookup_path, the stat of the joined path.           *)
(*   FileResponse    : file_response, with the If-None-Match test.         *)
(*   StaticGetResponse : get_response.                                     *)
(*   StaticCheckConfig : check_config, run until it has passed once.       *)
(***************************************************************************)
StaticFilesInitUnchecked(dir) == TRUE

StaticFilesInit(dir) == dir.exists

IsFile(dir, name) == name \in Files /\ dir.files[name] # Absent

LookupPath(dir, path) ==
    IF ~dir.exists THEN [kind |-> "none", name |-> ""]
    ELSE IF path = Root THEN [kind |-> "dir", name |-> ""]
    ELSE IF Len(path) = 1 /\ IsFile(dir, path[1])
         THEN [kind |-> "file", name |-> path[1]]
    ELSE [kind |-> "none", name |-> ""]

IsNotModified(dir, name, req) ==
    req.ifNoneMatch # NoTag /\ req.ifNoneMatch = Etag(dir.files[name])

SentBody(req, body) == IF req.method = "HEAD" THEN EmptyBody ELSE body

FileResponseAlways200(dir, name, req) ==
    Response(200, SentBody(req, FileBody(name, dir.files[name])), "static")

FileResponse(dir, name, req) ==
    IF IsNotModified(dir, name, req)
    THEN Response(304, EmptyBody, "static")
    ELSE Response(200, SentBody(req, FileBody(name, dir.files[name])), "static")

StaticGetResponseAnyMethod(dir, req) ==
    LET hit == LookupPath(dir, req.path) IN
    IF hit.kind = "file" THEN FileResponse(dir, hit.name, req)
    ELSE IF hit.kind = "dir" /\ IsFile(dir, "index.html")
         THEN FileResponse(dir, "index.html", req)
    ELSE IF IsFile(dir, "404.html")
         THEN Response(404, SentBody(req, FileBody("404.html", dir.files["404.html"])),
                       "static")
    ELSE HttpError(404, "Not Found", "static")

StaticGetResponseNoHtml(dir, req) ==
    LET hit == LookupPath(dir, req.path) IN
    IF req.method \notin {"GET", "HEAD"}
    THEN HttpError(405, "Method Not Allowed", "static")
    ELSE IF hit.kind = "file" THEN FileResponse(dir, hit.name, req)
    ELSE HttpError(404, "Not Found", "static")

StaticGetResponse(dir, req) ==
    LET hit == LookupPath(dir, req.path) IN
    IF req.method \notin {"GET", "HEAD"}
    THEN HttpError(405, "Method Not Allowed", "static")
    ELSE IF hit.kind = "file" THEN FileResponse(dir, hit.name, req)
    ELSE IF hit.kind = "dir" /\ IsFile(dir, "index.html")
         THEN FileResponse(dir, "index.html", req)
    ELSE IF IsFile(dir, "404.html")
         THEN Response(404, SentBody(req, FileBody("404.html", dir.files["404.html"])),
                       "static")
    ELSE HttpError(404, "Not Found", "static")

StaticCheckConfig(dir, checked) == checked \/ dir.exists

ServerError == Response(500, TextBody("Internal Server Error"), "static")

StaticEndpoint(dir, checked, req) ==
    IF StaticCheckConfig(dir, checked)
    THEN StaticGetResponse(dir, req)
    ELSE ServerError

(***************************************************************************)
(* The interactive documentation the FastAPI() constructor registers.      *)
(***************************************************************************)
DocsEndpoint(req) ==
    Response(200, SentBody(req, HtmlBody(req.path[Len(req.path)])), "docs")

(***************************************************************************)
(* The route table.  FastAPI() registers the documentation routes,         *)
(* include_router appends the router's POST route, and app.mount appends   *)
(* the mount last.                                                         *)
(***************************************************************************)
Route(path, methods, endpoint) ==
    [kind |-> "route", path |-> path, methods |-> methods, endpoint |-> endpoint]

Mount(path, endpoint) ==
    [kind |-> "mount", path |-> path, methods |-> {}, endpoint |-> endpoint]

DocRoutes ==
    << Route(<<"openapi.json">>, {"GET", "HEAD"}, "docs"),
       Route(<<"docs">>, {"GET", "HEAD"}, "docs"),
       Route(<<"docs", "oauth2-redirect">>, {"GET", "HEAD"}, "docs"),
       Route(<<"redoc">>, {"GET", "HEAD"}, "docs") >>

router == << Route(Root, {"POST"}, "hello") >>

StaticMount == Mount(Root, "static")

AppRoutesMountFirst == DocRoutes \o <<StaticMount>> \o router

AppRoutes == DocRoutes \o router \o <<StaticMount>>

(***************************************************************************)
(* Route matching and the router's dispatch: the first route that matches  *)
(* fully answers; failing that, the first route matching the path but not  *)
(* the method answers 405; failing that, the router answers 404.           *)
(***************************************************************************)
IsPrefix(p, q) == Len(p) <= Len(q) /\ SubSeq(q, 1, Len(p)) = p

Matches(route, req) ==
    IF route.kind = "mount"
    THEN IF IsPrefix(route.path, req.path) THEN "FULL" ELSE "NONE"
    ELSE IF route.path # req.path THEN "NONE"
    ELSE IF req.method \in route.methods THEN "FULL"
    ELSE "PARTIAL"

Indexes(table, req, kind) == {i \in DOMAIN table : Matches(table[i], req) = kind}

Lowest(S) == CHOOSE i \in S : \A j \in S : i <= j

Highest(S) == CHOOSE i \in S : \A j \in S : j <= i

DispatchLastMatch(table, req) ==
    IF Indexes(table, req, "FULL") # {}
    THEN table[Highest(Indexes(table, req, "FULL"))].endpoint
    ELSE IF Indexes(table, req, "PARTIAL") # {} THEN "method_not_allowed"
    ELSE "not_found"

Dispatch(table, req) ==
    IF Indexes(table, req, "FULL") # {}
    THEN table[Lowest(Indexes(table, req, "FULL"))].endpoint
    ELSE IF Indexes(table, req, "PARTIAL") # {} THEN "method_not_allowed"
    ELSE "not_found"

(***************************************************************************)
(* What an endpoint answers, and what it leaves of config_checked.         *)
(***************************************************************************)
Answer(endpoint, dir, checked, req) ==
    CASE endpoint = "hello" -> HelloEndpoint(req)
      [] endpoint = "static" -> StaticEndpoint(dir, checked, req)
      [] endpoint = "docs" -> DocsEndpoint(req)
      [] endpoint = "method_not_allowed" -> HttpError(405, "Method Not Allowed", "router")
      [] OTHER -> HttpError(404, "Not Found", "router")

CheckedAfterAnyEndpoint(endpoint, dir, checked) == StaticCheckConfig(dir, checked)

CheckedAfter(endpoint, dir, checked) ==
    IF endpoint = "static" THEN StaticCheckConfig(dir, checked) ELSE checked

Serve(req) == Answer(Dispatch(routes, req), frontend, configChecked, req)

(***************************************************************************)
(* State.                                                                  *)
(*   app       "unloaded" before main.py runs, then "running", or "failed" *)
(*             when loading it raised                                      *)
(*   routes    app.router.routes                                           *)
(*   frontend  the directory "frontend" on disk                            *)
(*   configChecked  the mount's config_checked flag                        *)
(*   last      the most recent request answered and its response           *)
(*   nServed   the number of requests answered so far                      *)
(*   conn      the connections of the concurrent specification             *)
(***************************************************************************)
NoResponse == Response(0, EmptyBody, "")

NoExchange == [valid |-> FALSE, req |-> CHOOSE r \in Requests : TRUE,
               resp |-> NoResponse]

Idle == [pc |-> "idle", req |-> CHOOSE r \in Requests : TRUE,
         endpoint |-> "", resp |-> NoResponse]

Conns == 1 .. MaxInFlight

Init ==
    /\ app = "unloaded"
    /\ routes = <<>>
    /\ frontend \in Directories
    /\ configChecked = FALSE
    /\ last = NoExchange
    /\ nServed = 0
    /\ conn = [c \in Conns |-> Idle]

(***************************************************************************)
(* Loading main.py (lines 4 to 12).  The StaticFiles constructor raises    *)
(* when the directory does not exist, and then the module fails to load.   *)
(***************************************************************************)
Startup ==
    /\ app = "unloaded"
    /\ IF StaticFilesInit(frontend)
       THEN app' = "running" /\ routes' = AppRoutes
       ELSE app' = "failed" /\ routes' = DocRoutes \o router
    /\ UNCHANGED <<frontend, configChecked, last, nServed, conn>>

(***************************************************************************)
(* One request handled from dispatch to response.                          *)
(***************************************************************************)
HandleRequest(req) ==
    /\ app = "running"
    /\ nServed < MaxRequests
    /\ last' = [valid |-> TRUE, req |-> req, resp |-> Serve(req)]
    /\ configChecked' = CheckedAfter(Dispatch(routes, req), frontend, configChecked)
    /\ nServed' = nServed + 1
    /\ UNCHANGED <<app, routes, frontend, conn>>

(***************************************************************************)
(* The environment changes the directory on disk.                          *)
(***************************************************************************)
EnvWriteFile(f) ==
    /\ frontend.exists
    /\ frontend.files[f] = Absent
    /\ \E c \in Contents : frontend' = [frontend EXCEPT !.files[f] = c]
    /\ UNCHANGED <<app, routes, configChecked, last, nServed, conn>>

EnvRemoveFile(f) ==
    /\ frontend.exists
    /\ frontend.files[f] # Absent
    /\ frontend' = [frontend EXCEPT !.files[f] = Absent]
    /\ UNCHANGED <<app, routes, configChecked, last, nServed, conn>>

EnvRemoveDir ==
    /\ frontend.exists
    /\ frontend' = [exists |-> FALSE, files |-> NoFiles]
    /\ UNCHANGED <<app, routes, configChecked, last, nServed, conn>>

EnvMakeDir ==
    /\ ~frontend.exists
    /\ frontend' = [exists |-> TRUE, files |-> NoFiles]
    /\ UNCHANGED <<app, routes, configChecked, last, nServed, conn>>

Next ==
    \/ Startup
    \/ \E req \in Requests : HandleRequest(req)
    \/ \E f \in Files : EnvWriteFile(f)
    \/ \E f \in Files : EnvRemoveFile(f)
    \/ EnvRemoveDir
    \/ EnvMakeDir

Spec == Init /\ [][Next]_vars

(***************************************************************************)
(* Concurrent requests.  The server runtime handles each connection as its *)
(* own task on one event loop; a task gives up the loop only where the     *)
(* code awaits.  A connection goes                                         *)
(*   idle -> accepted -> routed -> done               (hello, docs)        *)
(*   idle -> accepted -> routed -> lookup -> done     (the mount, which    *)
(*                                  awaits its stat calls)                 *)
(* and back to idle when the client has read the response.  hello awaits   *)
(* nothing, so it is ready to run whatever the other connections do.       *)
(***************************************************************************)
ConcRequests ==
    {r \in Requests : r = Plain(r) /\ r.method \in {"GET", "POST"}
                        /\ (r.method = "POST" => r.path = Root)}

ConcDirectories ==
    {d \in Directories : d.files["404.html"] = Absent /\ d.files["docs"] = Absent}

HelloWaitsForLookups(c) == \A d \in Conns \ {c} : conn[d].pc # "lookup"

HelloReady(c) == TRUE

Accept(c, req) ==
    /\ app = "running"
    /\ conn[c].pc = "idle"
    /\ conn' = [conn EXCEPT ![c] = [Idle EXCEPT !.pc = "accepted", !.req = req]]
    /\ UNCHANGED <<app, routes, frontend, configChecked, last, nServed>>

RouteStep(c) ==
    /\ conn[c].pc = "accepted"
    /\ conn' = [conn EXCEPT ![c].pc = "routed",
                            ![c].endpoint = Dispatch(routes, conn[c].req)]
    /\ UNCHANGED <<app, routes, frontend, configChecked, last, nServed>>

RunHello(c) ==
    /\ conn[c].pc = "routed"
    /\ conn[c].endpoint = "hello"
    /\ HelloReady(c)
    /\ conn' = [conn EXCEPT ![c].pc = "done",
                            ![c].resp = HelloEndpoint(conn[c].req)]
    /\ UNCHANGED <<app, routes, frontend, configChecked, last, nServed>>

RunOther(c) ==
    /\ conn[c].pc = "routed"
    /\ conn[c].endpoint \notin {"hello", "static"}
    /\ conn' = [conn EXCEPT ![c].pc = "done",
                            ![c].resp = Answer(conn[c].endpoint, frontend,
                                               configChecked, conn[c].req)]
    /\ UNCHANGED <<app, routes, frontend, configChecked, last, nServed>>

StaticCheck(c) ==
    /\ conn[c].pc = "routed"
    /\ conn[c].endpoint = "static"
    /\ IF StaticCheckConfig(frontend, configChecked)
       THEN /\ configChecked' = TRUE
            /\ conn' = [conn EXCEPT ![c].pc = "lookup"]
       ELSE /\ configChecked' = configChecked
            /\ conn' = [conn EXCEPT ![c].pc = "done", ![c].resp = ServerError]
    /\ UNCHANGED <<app, routes, frontend, last, nServed>>

StaticLookup(c) ==
    /\ conn[c].pc = "lookup"
    /\ conn' = [conn EXCEPT ![c].pc = "done",
                            ![c].resp = StaticGetResponse(frontend, conn[c].req)]
    /\ UNCHANGED <<app, routes, frontend, configChecked, last, nServed>>

Close(c) ==
    /\ conn[c].pc = "done"
    /\ conn' = [conn EXCEPT ![c] = Idle]
    /\ UNCHANGED <<app, routes, frontend, configChecked, last, nServed>>

ServerStep(c) ==
    RouteStep(c) \/ RunHello(c) \/ RunOther(c) \/ StaticCheck(c) \/ StaticLookup(c)

ConcInit == Init /\ frontend \in ConcDirectories

ConcNext ==
    \/ Startup
    \/ \E c \in Conns, req \in ConcRequests : Accept(c, req)
    \/ \E c \in Conns : RouteStep(c)
    \/ \E c \in Conns : RunHello(c)
    \/ \E c \in Conns : RunOther(c)
    \/ \E c \in Conns : StaticCheck(c)
    \/ \E c \in Conns : StaticLookup(c)
    \/ \E c \in Conns : Close(c)
    \/ EnvRemoveDir

\* The event loop runs every task that is ready: a connection's next server
\* step, once enabled and staying so, is taken.
ConcSpec == ConcInit /\ [][ConcNext]_vars /\ \A c \in Conns : WF_vars(ServerStep(c))

(***************************************************************************)
(* Vocabulary of the properties.                                           *)
(***************************************************************************)
\* The step answers a request: last' holds it and its response, and the
\* unprimed variables are the state the request was handled in.
Served == nServed' = nServed + 1 /\ last'.valid

\* Some registered route (not the mount) matches req's path and method.
RouteHandles(req) ==
    \E i \in DOMAIN routes :
        routes[i].kind = "route" /\ Matches(routes[i], req) = "FULL"

\* The path names a file that exists under the directory.
MapsToFile(dir, path) == Len(path) = 1 /\ path[1] \in Files /\ dir.files[path[1]] # Absent

\* The path has nothing to serve under the directory: no such file, and for
\* the root path no index.html.
NoStaticFile(dir, path) ==
    IF path = Root THEN dir.files["index.html"] = Absent
    ELSE ~MapsToFile(dir, path)

\* The response delivers the file to the request: status 200 with its
\* contents, or, as HTTP counts it, 200 without a body to a HEAD request and
\* 304 to a request whose If-None-Match names the file's current version.
Delivers(resp, req, name, content) ==
    \/ /\ resp.status = 200
       /\ resp.body = [type |-> "file", json |-> {}, file |-> <<name, content>>]
    \/ /\ resp.status = 200 /\ req.method = "HEAD" /\ resp.body.type = "empty"
    \/ /\ resp.status = 304 /\ req.ifNoneMatch = content /\ resp.body.type = "empty"

HelloJson == [type |-> "json", json |-> {<<"hello", "hello">>}, file |-> <<>>]

(***************************************************************************)
(* C1: every POST request to "/" is answered with status 200 and a JSON    *)
(* body that is exactly the object {"hello": "hello"}.                     *)
(***************************************************************************)
C1_PostRootAnswersHello ==
    (last.valid /\ IsPostRoot(last.req)) =>
        (last.resp.status = 200 /\ last.resp.body = HelloJson)

C1_Witness ==
    /\ last.valid /\ IsPostRoot(last.req)
    /\ last.req.body = "junk"
    /\ last.resp.status = 200

(***************************************************************************)
(* C2: a request for a path with no matching static file under frontend    *)
(* and no matching route returns a not-found status, whatever its method.  *)
(* C2_AnyMethodNotFound states this as claimed.  The code answers 404 only *)
(* to GET and HEAD; the mount answers any other method 405.  And once the  *)
(* directory itself has gone before the mount's first request, the mount   *)
(* raises instead, so the amended statement is about an existing           *)
(* directory: C2_NotFoundOrMethodNotAllowed.                               *)
(***************************************************************************)
C2_AnyMethodNotFound ==
    [][LET req == last'.req IN
         (Served /\ ~RouteHandles(req) /\ NoStaticFile(frontend, req.path))
            => last'.resp.status = 404]_vars

C2_NotFoundOrMethodNotAllowed ==
    [][LET req == last'.req IN
         (Served /\ ~RouteHandles(req) /\ frontend.exists
            /\ NoStaticFile(frontend, req.path))
            => IF req.method \in {"GET", "HEAD"}
               THEN last'.resp.status = 404
               ELSE last'.resp.status = 405]_vars

C2_Witness ==
    /\ last.valid /\ last.req.method = "GET" /\ last.req.path = <<"app.js">>
    /\ frontend.exists /\ frontend.files["app.js"] = Absent
    /\ last.resp.status = 404

(***************************************************************************)
(* C3: requesting a path that maps to an existing file under frontend      *)
(* returns that file's contents with status 200.  C3_AnyRequestGetsFile    *)
(* states this as claimed, for a request of any method that reaches the    *)
(* mount, and reads it generously (Delivers).  The code does so for a GET  *)
(* that reaches the mount and carries no If-None-Match equal to the file's *)
(* ETag; a matching If-None-Match gets 304 with no body, HEAD gets no      *)
(* body, and any other method gets 405: C3_GetReturnsFile.                 *)
(***************************************************************************)
C3_AnyRequestGetsFile ==
    [][LET req == last'.req IN
         (Served /\ MapsToFile(frontend, req.path) /\ ~RouteHandles(req))
            => Delivers(last'.resp, req, req.path[1], frontend.files[req.path[1]])]_vars

C3_GetReturnsFile ==
    [][LET req == last'.req IN
         (Served /\ MapsToFile(frontend, req.path) /\ ~RouteHandles(req))
            => LET content == frontend.files[req.path[1]]
                   fresh == req.ifNoneMatch = content
                   whole == [type |-> "file", json |-> {},
                             file |-> <<req.path[1], content>>]
               IN  CASE req.method = "GET" /\ ~fresh ->
                          last'.resp.status = 200 /\ last'.resp.body = whole
                     [] req.method = "GET" /\ fresh ->
                          last'.resp.status = 304 /\ last'.resp.body.type = "empty"
                     [] req.method = "HEAD" ->
                          /\ last'.resp.status = (IF fresh THEN 304 ELSE 200)
                          /\ last'.resp.body.type = "empty"
                     [] OTHER -> last'.resp.status = 405]_vars

C3_Witness ==
    /\ last.valid /\ last.req.method = "GET" /\ last.req.path = <<"app.js">>
    /\ frontend.exists /\ frontend.files["app.js"] = "v1"
    /\ last.resp.status = 200
    /\ last.resp.body.file = <<"app.js", "v1">>

(***************************************************************************)
(* C4: repeated identical requests to "/" always return the identical JSON *)
(* body, and no step (a request of any kind, or a change of the directory) *)
(* changes what a later POST to "/" returns.                               *)
(***************************************************************************)
PostRootPlain ==
    [method |-> "POST", path |-> Root, query |-> "", body |-> "", ifNoneMatch |-> NoTag]

PostRootLoaded ==
    [method |-> "POST", path |-> Root, query |-> "x=1", body |-> "junk",
     ifNoneMatch |-> "v1"]

C4_PostRootIdempotent ==
    [][/\ (app = "running" /\ app' = "running") =>
            \A req \in {PostRootPlain, PostRootLoaded} : Serve(req)' = Serve(req)
       /\ (Served /\ last.valid /\ IsPostRoot(last.req) /\ last'.req = last.req) =>
            last'.resp.body = last.resp.body]_vars

C4_Witness ==
    /\ nServed >= 2 /\ configChecked
    /\ last.valid /\ IsPostRoot(last.req)
    /\ last.resp.body = HelloJson

(***************************************************************************)
(* C5: a missing frontend directory produces the default not-found         *)
(* behaviour, the application still starting.  C5_MissingDirStillStarts    *)
(* states this as claimed.  In the code the StaticFiles constructor raises *)
(* when the directory is missing, so loading main.py fails and no request  *)
(* is ever answered; with the directory present the application starts     *)
(* with the mount registered: C5_MissingDirFailsStartup.                   *)
(***************************************************************************)
Loaded == app = "unloaded" /\ app' # "unloaded"

HasMount(table) == \E i \in DOMAIN table : table[i].kind = "mount"

C6_RootServesIndex ==
    [][LET req == last'.req IN
         (Served /\ ~RouteHandles(req)) =>
            /\ last'.resp.by = "static"
            /\ (req.path = Root /\ frontend.files["index.html"] # Absent) =>
                  Delivers(last'.resp, req, "index.html",
                           frontend.files["index.html"])]_vars

C6_GetRootServesIndex ==
    [][LET req == last'.req IN
         (Served /\ ~RouteHandles(req)) =>
            /\ last'.resp.by = "static"
            /\ (req.path = Root /\ frontend.files["index.html"] # Absent) =>
                 LET content == frontend.files["index.html"]
                     fresh == req.ifNoneMatch = content
                 IN  CASE req.method = "GET" /\ ~fresh ->
                            /\ last'.resp.status = 200
                            /\ last'.resp.body =
                                 [type |-> "file", json |-> {},
                                  file |-> <<"index.html", content>>]
                       [] req.method = "GET" /\ fresh ->
                            last'.resp.status = 304 /\ last'.resp.body.type = "empty"
                       [] req.method = "HEAD" ->
                            /\ last'.resp.status = (IF fresh THEN 304 ELSE 200)
                            /\ last'.resp.body.type = "empty"
                       [] OTHER -> last'.resp.status = 405]_vars

C6_Witness ==
    /\ last.valid /\ last.req.method = "GET" /\ last.req.path = Root
    /\ frontend.files["index.html"] = "v1"
    /\ last.resp.status = 200
    /\ last.resp.body.file = <<"index.html", "v1">>

(***************************************************************************)
(* C7: the response to POST "/" does not depend on the request's headers,  *)
(* body or query: it is the response to the same request without them, any *)
(* two POSTs to "/" get the same response, and none is rejected.           *)
(***************************************************************************)
C7_PostRootIgnoresInputs ==
    /\ (last.valid /\ IsPostRoot(last.req)) =>
          /\ last.resp = Serve(Plain(last.req))
          /\ last.resp.status \notin {400, 415, 422}
    /\ app = "running" =>
          \A req \in {r \in Requests : IsPostRoot(r)} : Serve(req) = Serve(PostRootPlain)

C7_Witness ==
    /\ last.valid /\ IsPostRoot(last.req)
    /\ last.req.query = "x=1" /\ last.req.body = "junk" /\ last.req.ifNoneMatch = "v1"
    /\ last.resp.status = 200 /\ last.resp.body = HelloJson

(***************************************************************************)
(* C8: handling a POST to "/" leaves the application state unchanged: the  *)
(* registered routes and the mount, the mount's config_checked flag, and   *)
(* the contents of the static directory.                                   *)
(***************************************************************************)
C8_HelloHasNoSideEffects ==
    [][(Served /\ IsPostRoot(last'.req)) =>
          UNCHANGED <<app, routes, frontend, configChecked>>]_vars

C8_Witness ==
    /\ last.valid /\ IsPostRoot(last.req) /\ nServed = 1
    /\ frontend.exists /\ ~configChecked
    /\ routes = AppRoutes

(***************************************************************************)
(* C10: a POST to "/" is always answered by the route's endpoint and never *)
(* by the mount, whatever files frontend holds, and the mount answers only *)
(* requests that no route matches fully.                                   *)
(***************************************************************************)
C10_RouteBeforeMount ==
    /\ (last.valid /\ IsPostRoot(last.req)) => last.resp.by = "hello"
    /\ (last.valid /\ last.resp.by = "static") => ~RouteHandles(last.req)

C10_Witness ==
    /\ last.valid /\ IsPostRoot(last.req) /\ last.resp.by = "hello"
    /\ nServed = 1 /\ frontend.files["index.html"] = "v1" /\ ~configChecked

(***************************************************************************)
(* C9: under any interleaving of concurrently handled requests the hello   *)
(* endpoint never waits on another request (once routed it is ready to     *)
(* run), and every accepted POST to "/" eventually completes with the      *)
(* constant response, whatever the other connections are doing.            *)
(***************************************************************************)
C9_PostRootCompletes ==
    /\ [](\A c \in Conns :
            (conn[c].pc = "routed" /\ conn[c].endpoint = "hello") =>
               ENABLED RunHello(c))
    /\ \A c \in Conns :
          (conn[c].pc = "accepted" /\ IsPostRoot(conn[c].req))
             ~> (/\ conn[c].pc = "done" /\ IsPostRoot(conn[c].req)
                 /\ conn[c].resp.status = 200 /\ conn[c].resp.body = HelloJson)

C9_Witness ==
    \E c, d \in Conns :
        /\ c # d
        /\ conn[c].pc = "done" /\ IsPostRoot(conn[c].req)
        /\ conn[c].resp.body = HelloJson
        /\ conn[d].pc = "lookup"

====
